---- MODULE Spec2Model ----
(***************************************************************************)
(* Model of the UDS bundle assembly engine: bundle.Create (local tarball), *)
(* bundle.CreateAndPublish (remote registry) and writeTarball (the async   *)
(* archival pipeline), as found in src/src/test/e2e/main_test.go.          *)
(*                                                                         *)
(* Blobs are modelled by their content (a record); a digest is the record  *)
(* [algorithm, hex] whose hex part stands for sha256 of that content, so   *)
(* two digests are equal iff the contents are equal.                       *)
(***************************************************************************)
EXTENDS Integers, Sequences, FiniteSets, TLC

(* ------------------------------ bounds -------------------------------- *)
MaxPkgs == 2        \* longest bundle.ZarfPackages explored
LayersPerPkg == 1   \* blobs referenced by one child manifest
MaxFiles == 3       \* largest PathMap handed directly to writeTarball
MaxJobFailures == 1 \* most file writes that fail in one run of writeTarball

(* --------------------------- program constants ------------------------ *)
BlobsDir == "blobs/sha256"
BundleYAML == "uds-bundle.yaml"
BundleYAMLSignature == "uds-bundle.yaml.sig"
MediaTypeImageManifest == "application/vnd.oci.image.manifest.v1+json"
MediaTypeImageConfig == "application/vnd.oci.image.config.v1+json"
ZarfLayerMediaTypeBlob == "application/vnd.zarf.layer.v1.blob"
AnnotationTitle == "org.opencontainers.image.title"
AnnotationDescription == "org.opencontainers.image.description"
AnnotationURL == "org.opencontainers.image.url"
AnnotationAuthors == "org.opencontainers.image.authors"
AnnotationDocumentation == "org.opencontainers.image.documentation"
AnnotationSource == "org.opencontainers.image.source"
AnnotationVendor == "org.opencontainers.image.vendor"

(* ------------------------------ inputs -------------------------------- *)
PkgNames == <<"a", "b", "c", "d">>
Repositories == {"", "ghcr.io/pkgs"}
Paths == {"", "pkg.tar.zst"}
Architectures == {"", "amd64"}
Signatures == {<<>>, <<7>>}
DstReference == "0.0.1"

ZarfPackage(k, repo, path) ==
    [Name |-> PkgNames[k], Repository |-> repo, Ref |-> <<"v1">>, Path |-> path]

PkgLists ==
    UNION {
        { [k \in 1..n |-> ZarfPackage(k, rp[k][1], rp[k][2])] :
            rp \in [1..n -> Repositories \X Paths] } : n \in 0..MaxPkgs }

Metadata(arch) ==
    [Name |-> "demo", Description |-> "a demo bundle", Version |-> "0.0.1",
     Architecture |-> arch, URL |-> "https://uds.example", Authors |-> "",
     Documentation |-> "", Source |-> "", Vendor |-> ""]

Bundles ==
    { [Metadata |-> Metadata(arch), Build |-> [Architecture |-> "amd64"],
       ZarfPackages |-> pkgs] : arch \in Architectures, pkgs \in PkgLists }

(* --------------------------- descriptors ------------------------------ *)
NoDigest == [algorithm |-> "", hex |-> [kind |-> "none"]]
EmptyDescriptor == [mediaType |-> "", digest |-> NoDigest, annotations |-> {}]

FromBytes(content) == [algorithm |-> "sha256", hex |-> content]
Encoded(digest) == digest.hex

NewDescriptorFromBytes(mediaType, content) ==
    [mediaType |-> mediaType, digest |-> FromBytes(content), annotations |-> {}]

IsManifest(desc) == desc.mediaType = MediaTypeImageManifest

Bytes(b) == [kind |-> "bytes", bytes |-> b]

(* ------------------------------- errors ------------------------------- *)
NoErr == [msg |-> "", step |-> "", child |-> 0, names |-> {}]
StepErr(step, k) == [msg |-> "error", step |-> step, child |-> k, names |-> {}]
ArchErr ==
    [msg |-> "architecture is required for bundling", step |-> "arch",
     child |-> 0, names |-> {}]
InvalidPkgErr(k) ==
    [msg |-> "todo: haven't we already validated that Path or Repository is valid",
     step |-> "validate", child |-> k, names |-> {}]

Running == [status |-> "running", err |-> NoErr]
Ok == [status |-> "ok", err |-> NoErr]
Failed(e) == [status |-> "err", err |-> e]

(* ------------------- the bundler package (child mirroring) ------------ *)
ZarfManifestBytes(pkg) == [kind |-> "zarfManifest", name |-> pkg.Name]
ZarfLayerBytes(pkg, n) == [kind |-> "zarfLayer", name |-> pkg.Name, n |-> n]

\* descriptor returned by RemoteBundler.PushManifest
RemoteManifestDesc(pkg) ==
    NewDescriptorFromBytes(MediaTypeImageManifest, ZarfManifestBytes(pkg))

\* descriptors returned by RemoteBundler.PushLayers
RemoteLayerDescs(pkg) ==
    [n \in 1..LayersPerPkg |->
        NewDescriptorFromBytes(ZarfLayerMediaTypeBlob, ZarfLayerBytes(pkg, n))]

\* descriptor returned by LocalBundler.ToBundle (the rewritten child manifest)
LocalManifestDesc(pkg) ==
    [mediaType |-> MediaTypeImageManifest,
     digest |-> FromBytes([kind |-> "zarfManifest", name |-> pkg.Name, rewritten |-> TRUE]),
     annotations |-> {<<AnnotationTitle, pkg.Name>>}]

\* blobs LocalBundler.ToBundle puts into the store besides the manifest
LocalBlobDigests(pkg) ==
    { FromBytes(ZarfLayerBytes(pkg, n)) : n \in 1..LayersPerPkg }

(* ---------------------------- the content store ----------------------- *)
BlobPath(digest) == [dir |-> BlobsDir, blob |-> Encoded(digest)]
FilePath(name) == [file |-> name]
Range(s) == { s[k] : k \in 1..Len(s) }

NewStore == [open |-> TRUE, blobs |-> {}, index |-> <<>>, indexFile |-> <<>>]
ClosedStore == [open |-> FALSE, blobs |-> {}, index |-> <<>>, indexFile |-> <<>>]

\* ocistore.Store.Push: the blob is written; a manifest is also tagged by
\* digest, which saves the store's index to index.json
StorePush(st, desc) ==
    IF IsManifest(desc)
    THEN [st EXCEPT !.blobs = @ \cup {desc.digest},
                    !.index = Append(@, desc),
                    !.indexFile = Append(st.index, desc)]
    ELSE [st EXCEPT !.blobs = @ \cup {desc.digest}]

(* ------------------------- manifest building -------------------------- *)
EmptyManifest ==
    [schemaVersion |-> 0, mediaType |-> "", config |-> EmptyDescriptor,
     layers |-> <<>>, annotations |-> {}]

Marshal(manifest) == [kind |-> "manifest"] @@ manifest

YamlMarshal(b) == [kind |-> "udsBundleYaml", bundle |-> b]

ConfigBytes(metadata, build) ==
    [kind |-> "config", architecture |-> build.Architecture, ociVersion |-> "1.0.1",
     annotations |-> {<<AnnotationTitle, metadata.Name>>,
                      <<AnnotationDescription, metadata.Description>>}]

createManifestConfig(metadata, build) ==
    NewDescriptorFromBytes(MediaTypeImageManifest, ConfigBytes(metadata, build))

manifestAnnotationsFromMetadata(metadata) ==
    {<<AnnotationDescription, metadata.Description>>}
    \cup (IF metadata.URL # "" THEN {<<AnnotationURL, metadata.URL>>} ELSE {})
    \cup (IF metadata.Authors # "" THEN {<<AnnotationAuthors, metadata.Authors>>} ELSE {})
    \cup (IF metadata.Documentation # ""
          THEN {<<AnnotationDocumentation, metadata.Documentation>>} ELSE {})
    \cup (IF metadata.Source # "" THEN {<<AnnotationSource, metadata.Source>>} ELSE {})
    \cup (IF metadata.Vendor # "" THEN {<<AnnotationVendor, metadata.Vendor>>} ELSE {})

BundleYamlDesc(b) ==
    [NewDescriptorFromBytes(ZarfLayerMediaTypeBlob, YamlMarshal(b))
        EXCEPT !.annotations = {<<AnnotationTitle, BundleYAML>>}]

SignatureDesc(sig) ==
    [NewDescriptorFromBytes(ZarfLayerMediaTypeBlob, Bytes(sig))
        EXCEPT !.annotations = {<<AnnotationTitle, BundleYAMLSignature>>}]

(* ------------------------------- state -------------------------------- *)
VARIABLES
    mode,             \* "create" | "publish" | "tar": the entry point running
    pc,               \* position of the calling goroutine
    bundle,           \* the UDSBundle (b.bundle / *bundle)
    signature,        \* the signature bytes
    i,                \* index of the child being mirrored (1-based)
    rootManifest,     \* the ocispec.Manifest under construction
    manifestDesc,     \* descriptor of the marshalled root manifest
    store,            \* the OCI layout store in b.tmp
    artifactPathMap,  \* PathMap: archive paths of the files to tar
    registry,         \* the destination registry (remoteDst)
    pkgTmps,          \* per-child scratch directories that exist
    ops,              \* log of the mirroring calls made, in order
    result,           \* what Create / CreateAndPublish returned
    tar               \* state of writeTarball and its archival goroutine

vars == <<mode, pc, bundle, signature, i, rootManifest, manifestDesc, store,
          artifactPathMap, registry, pkgTmps, ops, result, tar>>

EmptyRegistry == [blobs |-> {}, tags |-> {}, log |-> <<>>]

IdleTar ==
    [files |-> 0, cap |-> 0, queued |-> 0, closed |-> FALSE,
     jobs |-> 0, results |-> <<>>, task |-> "none", taskErr |-> FALSE,
     ctxDone |-> FALSE, bar |-> 0, barTotal |-> 0, archived |-> 0, failed |-> 0,
     outOpen |-> FALSE, ret |-> Running, msg |-> FALSE]

Init ==
    /\ mode \in {"create", "publish"}
    /\ pc = "start"
    /\ bundle \in Bundles
    /\ signature \in Signatures
    /\ i = 0
    /\ rootManifest = EmptyManifest
    /\ manifestDesc = EmptyDescriptor
    /\ store = ClosedStore
    /\ artifactPathMap = {}
    /\ registry = EmptyRegistry
    /\ pkgTmps = {}
    /\ ops = <<>>
    /\ result = Running
    /\ tar = IdleTar

Op(step, ok) == [step |-> step, child |-> i, ok |-> ok]

\* a return from Create or CreateAndPublish: the deferred os.RemoveAll calls run
Return(r) ==
    /\ result' = r
    /\ pc' = "done"
    /\ pkgTmps' = {}

pkg == bundle.ZarfPackages[i]
InLoop == pc = "loop" /\ i <= Len(bundle.ZarfPackages)

(* ------------------------------- Create ------------------------------- *)
\* mutant: the store is opened before the architecture is checked
CreateBeginStoreFirst ==
    /\ mode = "create" /\ pc = "start"
    /\ \E ok \in BOOLEAN :
        IF ok
        THEN /\ store' = NewStore
             /\ IF bundle.Metadata.Architecture = ""
                THEN /\ Return(Failed(ArchErr))
                     /\ UNCHANGED <<rootManifest, i>>
                ELSE /\ rootManifest' =
                           [EmptyManifest EXCEPT !.mediaType = MediaTypeImageManifest]
                     /\ i' = 1
                     /\ pc' = "loop"
                     /\ UNCHANGED <<result, pkgTmps>>
        ELSE /\ Return(Failed(StepErr("NewStore", 0)))
             /\ UNCHANGED <<store, rootManifest, i>>
    /\ UNCHANGED <<mode, bundle, signature, manifestDesc, artifactPathMap, registry, ops, tar>>

CreateBegin ==
    /\ mode = "create" /\ pc = "start"
    /\ IF bundle.Metadata.Architecture = ""
       THEN /\ Return(Failed(ArchErr))
            /\ UNCHANGED <<store, rootManifest, i>>
       ELSE \E ok \in BOOLEAN :
            IF ok
            THEN /\ store' = NewStore
                 /\ rootManifest' = [EmptyManifest EXCEPT !.mediaType = MediaTypeImageManifest]
                 /\ i' = 1
                 /\ pc' = "loop"
                 /\ UNCHANGED <<result, pkgTmps>>
            ELSE /\ Return(Failed(StepErr("NewStore", 0)))
                 /\ UNCHANGED <<store, rootManifest, i>>
    /\ UNCHANGED <<mode, bundle, signature, manifestDesc, artifactPathMap, registry, ops, tar>>

NewRemoteBundler ==
    /\ mode = "create" /\ InLoop
    /\ pkg.Repository # ""
    /\ \E ok \in BOOLEAN :
        /\ ops' = Append(ops, Op("NewRemoteBundler", ok))
        /\ IF ok THEN pc' = "PushManifest" /\ UNCHANGED <<result, pkgTmps>>
                 ELSE Return(Failed(StepErr("NewRemoteBundler", i)))
    /\ UNCHANGED <<mode, bundle, signature, i, rootManifest, manifestDesc, store,
                   artifactPathMap, registry, tar>>

PushManifest ==
    /\ mode = "create" /\ pc = "PushManifest"
    /\ \E ok \in BOOLEAN :
        /\ ops' = Append(ops, Op("PushManifest", ok))
        /\ IF ok
           THEN LET pkgManifestDesc == RemoteManifestDesc(pkg) IN
                /\ store' = StorePush(store, pkgManifestDesc)
                /\ rootManifest' = [rootManifest EXCEPT !.layers = Append(@, pkgManifestDesc)]
                /\ artifactPathMap' = artifactPathMap \cup {BlobPath(pkgManifestDesc.digest)}
                /\ pc' = "PushLayers"
                /\ UNCHANGED <<result, pkgTmps>>
           ELSE /\ Return(Failed(StepErr("PushManifest", i)))
                /\ UNCHANGED <<store, rootManifest, artifactPathMap>>
    /\ UNCHANGED <<mode, bundle, signature, i, manifestDesc, registry, tar>>

PushLayers ==
    /\ mode = "create" /\ pc = "PushLayers"
    /\ \E ok \in BOOLEAN :
        /\ ops' = Append(ops, Op("PushLayers", ok))
        /\ IF ok
           THEN LET layerDescs == RemoteLayerDescs(pkg) IN
                /\ store' = [store EXCEPT !.blobs = @ \cup {d.digest : d \in Range(layerDescs)}]
                /\ artifactPathMap' =
                       artifactPathMap \cup {BlobPath(d.digest) : d \in Range(layerDescs)}
                /\ i' = i + 1
                /\ pc' = "loop"
                /\ UNCHANGED <<result, pkgTmps>>
           ELSE /\ Return(Failed(StepErr("PushLayers", i)))
                /\ UNCHANGED <<store, artifactPathMap, i>>
    /\ UNCHANGED <<mode, bundle, signature, rootManifest, manifestDesc, registry, tar>>

MakeTempDir ==
    /\ mode = "create" /\ InLoop
    /\ pkg.Repository = "" /\ pkg.Path # ""
    /\ \E ok \in BOOLEAN :
        /\ ops' = Append(ops, Op("MakeTempDir", ok))
        /\ IF ok THEN /\ pkgTmps' = pkgTmps \cup {i}
                      /\ pc' = "Extract"
                      /\ UNCHANGED result
                 ELSE Return(Failed(StepErr("MakeTempDir", i)))
    /\ UNCHANGED <<mode, bundle, signature, i, rootManifest, manifestDesc, store,
                   artifactPathMap, registry, tar>>

\* mutant: the error of Extract is dropped and the loop body goes on
ExtractIgnoreErr ==
    /\ mode = "create" /\ pc = "Extract"
    /\ \E ok \in BOOLEAN :
        /\ ops' = Append(ops, Op("Extract", ok))
        /\ pc' = "Load"
        /\ UNCHANGED <<result, pkgTmps>>
    /\ UNCHANGED <<mode, bundle, signature, i, rootManifest, manifestDesc, store,
                   artifactPathMap, registry, tar>>

Extract ==
    /\ mode = "create" /\ pc = "Extract"
    /\ \E ok \in BOOLEAN :
        /\ ops' = Append(ops, Op("Extract", ok))
        /\ IF ok THEN pc' = "Load" /\ UNCHANGED <<result, pkgTmps>>
                 ELSE Return(Failed(StepErr("Extract", i)))
    /\ UNCHANGED <<mode, bundle, signature, i, rootManifest, manifestDesc, store,
                   artifactPathMap, registry, tar>>

Load ==
    /\ mode = "create" /\ pc = "Load"
    /\ \E ok \in BOOLEAN :
        /\ ops' = Append(ops, Op("Load", ok))
        /\ IF ok THEN pc' = "ToBundle" /\ UNCHANGED <<result, pkgTmps>>
                 ELSE Return(Failed(StepErr("Load", i)))
    /\ UNCHANGED <<mode, bundle, signature, i, rootManifest, manifestDesc, store,
                   artifactPathMap, registry, tar>>

\* mutant: the architecture is left out of the rewritten Ref
RewrittenRefNoArch(ref, arch, desc) ==
    ref \o <<"@sha256:", Encoded(desc.digest)>>

\* the Ref written back into the bundle for a local child (line 198)
RewrittenRef(ref, arch, desc) ==
    ref \o <<"-", arch, "@sha256:", Encoded(desc.digest)>>

ToBundle ==
    /\ mode = "create" /\ pc = "ToBundle"
    /\ \E ok \in BOOLEAN :
        /\ ops' = Append(ops, Op("ToBundle", ok))
        /\ IF ok
           THEN LET zarfPkgDesc == LocalManifestDesc(pkg)
                    blobs == LocalBlobDigests(pkg) IN
                /\ store' = StorePush([store EXCEPT !.blobs = @ \cup blobs], zarfPkgDesc)
                /\ bundle' = [bundle EXCEPT !.ZarfPackages[i].Ref =
                                 RewrittenRef(@, bundle.Metadata.Architecture, zarfPkgDesc)]
                /\ rootManifest' = [rootManifest EXCEPT !.layers = Append(@, zarfPkgDesc)]
                /\ artifactPathMap' = artifactPathMap
                       \cup {BlobPath(d) : d \in blobs} \cup {BlobPath(zarfPkgDesc.digest)}
                /\ i' = i + 1
                /\ pc' = "loop"
                /\ UNCHANGED <<result, pkgTmps>>
           ELSE /\ Return(Failed(StepErr("ToBundle", i)))
                /\ UNCHANGED <<store, bundle, rootManifest, artifactPathMap, i>>
    /\ UNCHANGED <<mode, signature, manifestDesc, registry, tar>>

InvalidPkg ==
    /\ mode = "create" /\ InLoop
    /\ pkg.Repository = "" /\ pkg.Path = ""
    /\ Return(Failed(InvalidPkgErr(i)))
    /\ UNCHANGED <<mode, bundle, signature, i, rootManifest, manifestDesc, store,
                   artifactPathMap, registry, ops, tar>>

\* mutant: the bundle YAML pushed is the one of the bundle as it was given,
\* before any Ref was rewritten
pushBundleManifestToStoreStale ==
    /\ mode = "create" /\ pc = "loop" /\ i > Len(bundle.ZarfPackages)
    /\ \E ok \in BOOLEAN :
        IF ok
        THEN LET given == [bundle EXCEPT !.ZarfPackages =
                              [k \in 1..Len(@) |-> [@[k] EXCEPT !.Ref = <<"v1">>]]]
                 bundleManifestDesc == BundleYamlDesc(given) IN
             /\ store' = StorePush(store, bundleManifestDesc)
             /\ rootManifest' = [rootManifest EXCEPT !.layers = Append(@, bundleManifestDesc)]
             /\ artifactPathMap' = artifactPathMap \cup {BlobPath(bundleManifestDesc.digest)}
             /\ pc' = "rootManifest"
             /\ UNCHANGED <<result, pkgTmps>>
        ELSE /\ Return(Failed(StepErr("pushBundleManifestToStore", 0)))
             /\ UNCHANGED <<store, rootManifest, artifactPathMap>>
    /\ UNCHANGED <<mode, bundle, signature, i, manifestDesc, registry, ops, tar>>

pushBundleManifestToStore ==
    /\ mode = "create" /\ pc = "loop" /\ i > Len(bundle.ZarfPackages)
    /\ \E ok \in BOOLEAN :
        IF ok
        THEN LET bundleManifestDesc == BundleYamlDesc(bundle) IN
             /\ store' = StorePush(store, bundleManifestDesc)
             /\ rootManifest' = [rootManifest EXCEPT !.layers = Append(@, bundleManifestDesc)]
             /\ artifactPathMap' = artifactPathMap \cup {BlobPath(bundleManifestDesc.digest)}
             /\ pc' = "rootManifest"
             /\ UNCHANGED <<result, pkgTmps>>
        ELSE /\ Return(Failed(StepErr("pushBundleManifestToStore", 0)))
             /\ UNCHANGED <<store, rootManifest, artifactPathMap>>
    /\ UNCHANGED <<mode, bundle, signature, i, manifestDesc, registry, ops, tar>>

\* lines 225-242: the config descriptor is created, the manifest is
\* marshalled and its bytes are pushed into the store
PushRootManifest ==
    /\ mode = "create" /\ pc = "rootManifest"
    /\ LET manifestConfigDesc == createManifestConfig(bundle.Metadata, bundle.Build)
           final == [rootManifest EXCEPT
                        !.config = manifestConfigDesc,
                        !.schemaVersion = 2,
                        !.annotations = manifestAnnotationsFromMetadata(bundle.Metadata)]
           desc == NewDescriptorFromBytes(MediaTypeImageManifest, Marshal(final))
       IN /\ rootManifest' = final
          /\ manifestDesc' = desc
          /\ \E ok \in BOOLEAN :
              IF ok
              THEN /\ store' = StorePush(store, desc)
                   /\ artifactPathMap' = artifactPathMap \cup {BlobPath(desc.digest)}
                   /\ pc' = "index"
                   /\ UNCHANGED <<result, pkgTmps>>
              ELSE /\ Return(Failed(StepErr("store.Push", 0)))
                   /\ UNCHANGED <<store, artifactPathMap>>
    /\ UNCHANGED <<mode, bundle, signature, i, registry, ops, tar>>

\* mutant: the bundle-level manifest is added to the entries index.json
\* already has instead of replacing them
RewriteIndexKeepEntries ==
    /\ mode = "create" /\ pc = "index"
    /\ \E outcome \in {"ok", "readFailed", "writeFailed"} :
        CASE outcome = "ok" ->
                /\ store' = [store EXCEPT !.indexFile =
                                 SelectSeq(@, LAMBDA d : d # manifestDesc) \o <<manifestDesc>>]
                /\ artifactPathMap' =
                       artifactPathMap \cup {FilePath("index.json"), FilePath("oci-layout")}
                /\ pc' = "signature"
                /\ UNCHANGED <<result, pkgTmps>>
          [] outcome = "readFailed" ->
                /\ Return(Failed(StepErr("os.ReadFile", 0)))
                /\ UNCHANGED <<store, artifactPathMap>>
          [] outcome = "writeFailed" ->
                /\ store' = [store EXCEPT !.indexFile = <<>>]
                /\ Return(Failed(StepErr("indexFile.Write", 0)))
                /\ UNCHANGED artifactPathMap
    /\ UNCHANGED <<mode, bundle, signature, i, rootManifest, manifestDesc, registry, ops, tar>>

\* lines 244-270: index.json is read, reduced to the bundle-level manifest and
\* written back; index.json and oci-layout are added to the PathMap
RewriteIndex ==
    /\ mode = "create" /\ pc = "index"
    /\ \E outcome \in {"ok", "readFailed", "writeFailed"} :
        CASE outcome = "ok" ->
                /\ store' = [store EXCEPT !.indexFile = <<manifestDesc>>]
                /\ artifactPathMap' =
                       artifactPathMap \cup {FilePath("index.json"), FilePath("oci-layout")}
                /\ pc' = "signature"
                /\ UNCHANGED <<result, pkgTmps>>
          [] outcome = "readFailed" ->
                /\ Return(Failed(StepErr("os.ReadFile", 0)))
                /\ UNCHANGED <<store, artifactPathMap>>
          [] outcome = "writeFailed" ->
                /\ store' = [store EXCEPT !.indexFile = <<>>]
                /\ Return(Failed(StepErr("indexFile.Write", 0)))
                /\ UNCHANGED artifactPathMap
    /\ UNCHANGED <<mode, bundle, signature, i, rootManifest, manifestDesc, registry, ops, tar>>

\* lines 272-280 with pushBundleSignature (549-559)
PushSignature ==
    /\ mode = "create" /\ pc = "signature"
    /\ IF Len(signature) > 0
       THEN \E ok \in BOOLEAN :
            IF ok
            THEN /\ store' = StorePush(store,
                                NewDescriptorFromBytes(ZarfLayerMediaTypeBlob, Bytes(signature)))
                 /\ rootManifest' =
                        [rootManifest EXCEPT !.layers = Append(@, SignatureDesc(signature))]
                 /\ pc' = "tar"
                 /\ UNCHANGED <<result, pkgTmps>>
            ELSE /\ Return(Failed(StepErr("pushBundleSignature", 0)))
                 /\ UNCHANGED <<store, rootManifest>>
       ELSE /\ pc' = "tar"
            /\ UNCHANGED <<store, rootManifest, result, pkgTmps>>
    /\ UNCHANGED <<mode, bundle, signature, i, manifestDesc, artifactPathMap, registry, ops, tar>>

\* lines 283-288: Create returns what writeTarball returned
CreateReturn ==
    /\ mode = "create" /\ pc = "tarReturned"
    /\ Return(tar.ret)
    /\ UNCHANGED <<mode, bundle, signature, i, rootManifest, manifestDesc, store,
                   artifactPathMap, registry, ops, tar>>

(* --------------------------- CreateAndPublish ------------------------- *)
Pushed(op, digest, tag) == [op |-> op, digest |-> digest, tag |-> tag]

\* oci.OrasRemote.PushLayer and the bundler's pushes into remoteDst
RegistryPush(reg, op, digest) ==
    [reg EXCEPT !.blobs = @ \cup {digest}, !.log = Append(@, Pushed(op, digest, ""))]

\* Manifests().PushReference: the manifest is uploaded and tagged
PushReference(reg, desc, tag) ==
    [reg EXCEPT !.blobs = @ \cup {desc.digest},
                !.tags = @ \cup {[tag |-> tag, desc |-> desc]},
                !.log = Append(@, Pushed("manifest", desc.digest, tag))]

pushManifestConfigFromMetadata(metadata, build) ==
    NewDescriptorFromBytes(MediaTypeImageConfig, ConfigBytes(metadata, build))

PublishBegin ==
    /\ mode = "publish" /\ pc = "start"
    /\ IF bundle.Metadata.Architecture = ""
       THEN /\ Return(Failed(ArchErr))
            /\ UNCHANGED <<rootManifest, i>>
       ELSE /\ rootManifest' = EmptyManifest
            /\ i' = 1
            /\ pc' = "loop"
            /\ UNCHANGED <<result, pkgTmps>>
    /\ UNCHANGED <<mode, bundle, signature, manifestDesc, store, artifactPathMap,
                   registry, ops, tar>>

PublishNewRemoteBundler ==
    /\ mode = "publish" /\ InLoop
    /\ \E ok \in BOOLEAN :
        /\ ops' = Append(ops, Op("NewRemoteBundler", ok))
        /\ IF ok THEN pc' = "PushManifest" /\ UNCHANGED <<result, pkgTmps>>
                 ELSE Return(Failed(StepErr("NewRemoteBundler", i)))
    /\ UNCHANGED <<mode, bundle, signature, i, rootManifest, manifestDesc, store,
                   artifactPathMap, registry, tar>>

PublishPushManifest ==
    /\ mode = "publish" /\ pc = "PushManifest"
    /\ \E ok \in BOOLEAN :
        /\ ops' = Append(ops, Op("PushManifest", ok))
        /\ IF ok
           THEN LET zarfManifestDesc ==
                      [RemoteManifestDesc(pkg) EXCEPT !.mediaType = MediaTypeImageManifest] IN
                /\ registry' = RegistryPush(registry, "childManifest", zarfManifestDesc.digest)
                /\ rootManifest' = [rootManifest EXCEPT !.layers = Append(@, zarfManifestDesc)]
                /\ pc' = "PushLayers"
                /\ UNCHANGED <<result, pkgTmps>>
           ELSE /\ Return(Failed(StepErr("PushManifest", i)))
                /\ UNCHANGED <<registry, rootManifest>>
    /\ UNCHANGED <<mode, bundle, signature, i, manifestDesc, store, artifactPathMap, tar>>

RECURSIVE PushAll(_, _, _)
PushAll(reg, op, descs) ==
    IF descs = <<>> THEN reg
    ELSE PushAll(RegistryPush(reg, op, Head(descs).digest), op, Tail(descs))

PublishPushLayers ==
    /\ mode = "publish" /\ pc = "PushLayers"
    /\ \E ok \in BOOLEAN :
        /\ ops' = Append(ops, Op("PushLayers", ok))
        /\ IF ok
           THEN /\ registry' = PushAll(registry, "childLayer", RemoteLayerDescs(pkg))
                /\ i' = i + 1
                /\ pc' = "loop"
                /\ UNCHANGED <<result, pkgTmps>>
           ELSE /\ Return(Failed(StepErr("PushLayers", i)))
                /\ UNCHANGED <<registry, i>>
    /\ UNCHANGED <<mode, bundle, signature, rootManifest, manifestDesc, store,
                   artifactPathMap, tar>>

\* lines 330-344: the bundle's metadata
PublishBundleYaml ==
    /\ mode = "publish" /\ pc = "loop" /\ i > Len(bundle.ZarfPackages)
    /\ \E ok \in BOOLEAN :
        IF ok
        THEN LET bundleYamlDesc == BundleYamlDesc(bundle) IN
             /\ registry' = RegistryPush(registry, "blob", bundleYamlDesc.digest)
             /\ rootManifest' = [rootManifest EXCEPT !.layers = Append(@, bundleYamlDesc)]
             /\ pc' = "signature"
             /\ UNCHANGED <<result, pkgTmps>>
        ELSE /\ Return(Failed(StepErr("PushLayer", 0)))
             /\ UNCHANGED <<registry, rootManifest>>
    /\ UNCHANGED <<mode, bundle, signature, i, manifestDesc, store, artifactPathMap,
                   ops, tar>>

\* lines 346-357: the bundle's signature
PublishSignature ==
    /\ mode = "publish" /\ pc = "signature"
    /\ IF Len(signature) > 0
       THEN \E ok \in BOOLEAN :
            IF ok
            THEN LET bundleYamlSigDesc == SignatureDesc(signature) IN
                 /\ registry' = RegistryPush(registry, "blob", bundleYamlSigDesc.digest)
                 /\ rootManifest' = [rootManifest EXCEPT !.layers = Append(@, bundleYamlSigDesc)]
                 /\ pc' = "config"
                 /\ UNCHANGED <<result, pkgTmps>>
            ELSE /\ Return(Failed(StepErr("PushLayer", 0)))
                 /\ UNCHANGED <<registry, rootManifest>>
       ELSE /\ pc' = "config"
            /\ UNCHANGED <<registry, rootManifest, result, pkgTmps>>
    /\ UNCHANGED <<mode, bundle, signature, i, manifestDesc, store, artifactPathMap,
                   ops, tar>>

\* mutant: the config descriptor is set on the manifest without being pushed
PublishConfigNoPush ==
    /\ mode = "publish" /\ pc = "config"
    /\ rootManifest' = [rootManifest EXCEPT
                           !.config = pushManifestConfigFromMetadata(bundle.Metadata, bundle.Build)]
    /\ pc' = "rootManifest"
    /\ UNCHANGED <<mode, bundle, signature, i, manifestDesc, store, artifactPathMap,
                   registry, pkgTmps, ops, result, tar>>

\* lines 359-367: the bundle manifest config
PublishConfig ==
    /\ mode = "publish" /\ pc = "config"
    /\ \E ok \in BOOLEAN :
        IF ok
        THEN LET configDesc == pushManifestConfigFromMetadata(bundle.Metadata, bundle.Build) IN
             /\ registry' = RegistryPush(registry, "blob", configDesc.digest)
             /\ rootManifest' = [rootManifest EXCEPT !.config = configDesc]
             /\ pc' = "rootManifest"
             /\ UNCHANGED <<result, pkgTmps>>
        ELSE /\ Return(Failed(StepErr("pushManifestConfigFromMetadata", 0)))
             /\ UNCHANGED <<registry, rootManifest>>
    /\ UNCHANGED <<mode, bundle, signature, i, manifestDesc, store, artifactPathMap,
                   ops, tar>>

\* lines 369-396: the root manifest is marshalled, pushed and tagged
PublishRootManifest ==
    /\ mode = "publish" /\ pc = "rootManifest"
    /\ LET final == [rootManifest EXCEPT
                        !.schemaVersion = 2,
                        !.annotations = manifestAnnotationsFromMetadata(bundle.Metadata)]
           expected == NewDescriptorFromBytes(MediaTypeImageManifest, Marshal(final))
       IN /\ rootManifest' = final
          /\ manifestDesc' = expected
          /\ \E ok \in BOOLEAN :
              IF ok
              THEN /\ registry' = PushReference(registry, expected, DstReference)
                   /\ Return(Ok)
              ELSE /\ Return(Failed(StepErr("PushReference", 0)))
                   /\ UNCHANGED registry
    /\ UNCHANGED <<mode, bundle, signature, i, store, artifactPathMap, ops, tar>>

(* ------------------------------ writeTarball -------------------------- *)
ArchiveErr == StepErr("archive", 0)

\* mutant: the channels are made without a buffer
ChanCapUnbuffered(n) == 0

\* lines 504-505: both channels are made with room for len(files) elements
ChanCap(n) == n

\* lines 481-505: the output file is created, the files of the PathMap are
\* listed and the result and job channels are made
TarBegin ==
    /\ mode \in {"create", "tar"} /\ pc = "tar"
    /\ \E ok \in BOOLEAN :
        IF ok
        THEN LET n == Cardinality(artifactPathMap) IN
             /\ tar' = [tar EXCEPT !.files = n, !.cap = ChanCap(n), !.jobs = 0,
                                    !.queued = 0, !.results = <<>>, !.outOpen = TRUE]
             /\ pc' = "enqueue"
        ELSE /\ tar' = [tar EXCEPT !.ret = Failed(StepErr("writeTarball", 0))]
             /\ pc' = "tarReturned"
    /\ UNCHANGED <<mode, bundle, signature, i, rootManifest, manifestDesc, store,
                   artifactPathMap, registry, pkgTmps, ops, result>>

\* lines 507-513: jobs <- archiveJob, which blocks while the channel is full
TarEnqueue ==
    /\ pc = "enqueue"
    /\ tar.queued < tar.files
    /\ tar.jobs < tar.cap
    /\ tar' = [tar EXCEPT !.jobs = @ + 1, !.queued = @ + 1]
    /\ UNCHANGED <<mode, pc, bundle, signature, i, rootManifest, manifestDesc, store,
                   artifactPathMap, registry, pkgTmps, ops, result>>

\* lines 515-521: the job channel is closed and the progress bar is created
\* with len(jobs) as its total
TarClose ==
    /\ pc = "enqueue"
    /\ tar.queued = tar.files
    /\ tar' = [tar EXCEPT !.closed = TRUE, !.barTotal = tar.jobs]
    /\ pc' = "tarGo"
    /\ UNCHANGED <<mode, bundle, signature, i, rootManifest, manifestDesc, store,
                   artifactPathMap, registry, pkgTmps, ops, result>>

\* lines 523-525: the archival goroutine is started
TarGo ==
    /\ pc = "tarGo"
    /\ tar' = [tar EXCEPT !.task = "start"]
    /\ pc' = "jobLoop"
    /\ UNCHANGED <<mode, bundle, signature, i, rootManifest, manifestDesc, store,
                   artifactPathMap, registry, pkgTmps, ops, result>>

\* CompressedArchive.ArchiveAsync opens the compression writer; a failure
\* ends the goroutine with an error and the errgroup cancels ctx
TaskOpen ==
    /\ tar.task = "start"
    /\ \E ok \in BOOLEAN :
        tar' = IF ok THEN [tar EXCEPT !.task = "range"]
                     ELSE [tar EXCEPT !.task = "done", !.taskErr = TRUE, !.ctxDone = TRUE]
    /\ UNCHANGED <<mode, pc, bundle, signature, i, rootManifest, manifestDesc, store,
                   artifactPathMap, registry, pkgTmps, ops, result>>

\* Tar.ArchiveAsync: for job := range jobs
TaskTake ==
    /\ tar.task = "range" /\ tar.jobs > 0
    /\ tar' = [tar EXCEPT !.jobs = @ - 1, !.task = "write"]
    /\ UNCHANGED <<mode, pc, bundle, signature, i, rootManifest, manifestDesc, store,
                   artifactPathMap, registry, pkgTmps, ops, result>>

\* job.Result <- writeFileToArchive(...): Result has room for every job
TaskWrite ==
    /\ tar.task = "write"
    /\ Len(tar.results) < tar.cap
    /\ \E ok \in (IF tar.failed < MaxJobFailures THEN BOOLEAN ELSE {TRUE}) :
        tar' = [tar EXCEPT !.results = Append(@, ok),
                           !.archived = IF ok THEN @ + 1 ELSE @,
                           !.failed = IF ok THEN @ ELSE @ + 1,
                           !.task = "range"]
    /\ UNCHANGED <<mode, pc, bundle, signature, i, rootManifest, manifestDesc, store,
                   artifactPathMap, registry, pkgTmps, ops, result>>

\* the job channel is closed and drained: ArchiveAsync returns nil
TaskEnd ==
    /\ tar.task = "range" /\ tar.jobs = 0 /\ tar.closed
    /\ tar' = [tar EXCEPT !.task = "done"]
    /\ UNCHANGED <<mode, pc, bundle, signature, i, rootManifest, manifestDesc, store,
                   artifactPathMap, registry, pkgTmps, ops, result>>

\* line 528: for len(jobs) != 0
JobLoop ==
    /\ pc = "jobLoop"
    /\ pc' = IF tar.jobs # 0 THEN "select" ELSE "wait"
    /\ UNCHANGED <<mode, bundle, signature, i, rootManifest, manifestDesc, store,
                   artifactPathMap, registry, pkgTmps, ops, result, tar>>

\* lines 530-535: case err := <-archiveErrorChan
SelectResult ==
    /\ pc = "select"
    /\ tar.results # <<>>
    /\ IF Head(tar.results)
       THEN /\ tar' = [tar EXCEPT !.results = Tail(@), !.bar = @ + 1]
            /\ pc' = "jobLoop"
       ELSE /\ tar' = [tar EXCEPT !.results = Tail(@), !.ret = Failed(ArchiveErr),
                                   !.outOpen = FALSE]
            /\ pc' = "tarReturned"
    /\ UNCHANGED <<mode, bundle, signature, i, rootManifest, manifestDesc, store,
                   artifactPathMap, registry, pkgTmps, ops, result>>

\* lines 536-537: case <-ctx.Done()
SelectDone ==
    /\ pc = "select"
    /\ tar.ctxDone
    /\ pc' = "wait"
    /\ UNCHANGED <<mode, bundle, signature, i, rootManifest, manifestDesc, store,
                   artifactPathMap, registry, pkgTmps, ops, result, tar>>

\* lines 541-546: archiveErrGroup.Wait() and the success message
Wait ==
    /\ pc = "wait"
    /\ tar.task = "done"
    /\ tar' = IF tar.taskErr
              THEN [tar EXCEPT !.ret = Failed(StepErr("ArchiveAsync", 0)),
                               !.ctxDone = TRUE, !.outOpen = FALSE]
              ELSE [tar EXCEPT !.ret = Ok, !.msg = TRUE,
                               !.ctxDone = TRUE, !.outOpen = FALSE]
    /\ pc' = "tarReturned"
    /\ UNCHANGED <<mode, bundle, signature, i, rootManifest, manifestDesc, store,
                   artifactPathMap, registry, pkgTmps, ops, result>>

(* --------------------------- specifications --------------------------- *)
TarNext ==
    \/ TarBegin \/ TarEnqueue \/ TarClose \/ TarGo \/ TaskOpen \/ TaskTake \/ TaskWrite \/ TaskEnd
    \/ JobLoop \/ SelectResult \/ SelectDone \/ Wait

Next ==
    \/ CreateBegin \/ NewRemoteBundler \/ PushManifest \/ PushLayers
    \/ MakeTempDir \/ Extract \/ Load \/ ToBundle \/ InvalidPkg
    \/ pushBundleManifestToStore \/ PushRootManifest \/ RewriteIndex
    \/ PushSignature \/ CreateReturn
    \/ PublishBegin \/ PublishNewRemoteBundler \/ PublishPushManifest
    \/ PublishPushLayers \/ PublishBundleYaml \/ PublishSignature
    \/ PublishConfig \/ PublishRootManifest
    \/ TarNext

Spec == Init /\ [][Next]_vars

\* writeTarball called on its own with a PathMap of 0..MaxFiles files
TarPathMaps == { {FilePath(ToString(k)) : k \in 1..n} : n \in 0..MaxFiles }

InitTar ==
    /\ mode = "tar"
    /\ pc = "tar"
    /\ bundle \in {b \in Bundles : b.Metadata.Architecture # "" /\ b.ZarfPackages = <<>>}
    /\ signature = <<>>
    /\ i = 0
    /\ rootManifest = EmptyManifest
    /\ manifestDesc = EmptyDescriptor
    /\ store = NewStore
    /\ artifactPathMap \in TarPathMaps
    /\ registry = EmptyRegistry
    /\ pkgTmps = {}
    /\ ops = <<>>
    /\ result = Running
    /\ tar = IdleTar

SpecTar == InitTar /\ [][TarNext]_vars

\* the goroutines of writeTarball are scheduled: a step that stays possible
\* is eventually taken
TarFairness ==
    /\ WF_vars(TarBegin) /\ WF_vars(TarEnqueue) /\ WF_vars(TarClose) /\ WF_vars(TarGo)
    /\ WF_vars(TaskOpen) /\ WF_vars(TaskTake) /\ WF_vars(TaskWrite) /\ WF_vars(TaskEnd)
    /\ WF_vars(JobLoop) /\ WF_vars(SelectResult) /\ WF_vars(SelectDone) /\ WF_vars(Wait)

SpecTarFair == SpecTar /\ TarFairness

(* ------------------------- what the claims refer to ------------------- *)
OriginalRef == <<"v1">>
Pkgs == bundle.ZarfPackages
IsLocal(p) == p.Repository = "" /\ p.Path # ""
IsInvalid(p) == p.Repository = "" /\ p.Path = ""
Succeeded == pc = "done" /\ result.status = "ok"

\* the descriptor a mirrored child contributes to the root manifest
ChildDesc(p) ==
    IF mode = "create" /\ p.Repository = "" THEN LocalManifestDesc(p)
    ELSE RemoteManifestDesc(p)

ChildDescs == [k \in 1..Len(Pkgs) |-> ChildDesc(Pkgs[k])]

ExpectedLayers ==
    ChildDescs \o <<BundleYamlDesc(bundle)>>
        \o (IF Len(signature) > 0 THEN <<SignatureDesc(signature)>> ELSE <<>>)

\* the root manifest index.json points to (Create) or the tag names (publish)
StoredRootDesc ==
    IF mode = "create" THEN store.indexFile[1]
    ELSE (CHOOSE t \in registry.tags : t.tag = DstReference).desc

StoredRoot == Encoded(StoredRootDesc.digest)

IsPrefix(s, t) == Len(s) <= Len(t) /\ s = SubSeq(t, 1, Len(s))

Archiving == pc \in {"tar", "enqueue", "tarGo", "jobLoop", "select", "wait", "tarReturned"}

\* C1: on success the layers of the stored/published root manifest are the
\* child descriptors in bundle order, then uds-bundle.yaml, then the
\* signature descriptor iff the signature is non-empty
C1_RootLayers ==
    Succeeded => StoredRoot.layers = ExpectedLayers

\* C2: after a successful Create with a signature, the root manifest in the
\* store has a layer titled uds-bundle.yaml.sig naming the signature bytes,
\* and the signature blob is in the store
C2_SignatureLayer ==
    (mode = "create" /\ Succeeded /\ Len(signature) > 0) =>
        /\ \E k \in 1..Len(StoredRoot.layers) :
              /\ <<AnnotationTitle, BundleYAMLSignature>> \in StoredRoot.layers[k].annotations
              /\ StoredRoot.layers[k].digest = FromBytes(Bytes(signature))
        /\ FromBytes(Bytes(signature)) \in store.blobs

\* C3: after a successful Create the root manifest, its config and each of
\* its layers name a blob that is in the content store
C3_LayoutComplete ==
    (mode = "create" /\ Succeeded) =>
        /\ StoredRootDesc.digest \in store.blobs
        /\ StoredRoot.config.digest \in store.blobs
        /\ \A k \in 1..Len(StoredRoot.layers) : StoredRoot.layers[k].digest \in store.blobs

\* C4: from the start of archiving to a successful return, index.json lists
\* exactly one descriptor, that of the bundle root manifest in the store
C4_IndexOnlyRoot ==
    (mode = "create" /\ (Archiving \/ Succeeded)) =>
        /\ Len(store.indexFile) = 1
        /\ store.indexFile[1].mediaType = MediaTypeImageManifest
        /\ store.indexFile[1].digest \in store.blobs
        /\ StoredRoot.kind = "manifest"
        /\ StoredRoot.config = createManifestConfig(bundle.Metadata, bundle.Build)
        /\ IsPrefix(ChildDescs \o <<BundleYamlDesc(bundle)>>, StoredRoot.layers)

C4_Witness ==
    /\ mode = "create" /\ pc = "tar"
    /\ Len(Pkgs) = 2 /\ Len(store.index) = 3
    /\ Len(signature) > 0 /\ FromBytes(Bytes(signature)) \in store.blobs

\* C5: in Create a mirrored local child has Ref = original Ref, "-", the
\* bundle architecture, "@sha256:" and the hex digest of the descriptor
\* appended for it to the root manifest; other children keep their Ref
C5_RefRewrite ==
    mode = "create" =>
        \A k \in 1..Len(Pkgs) :
            IF k < i /\ IsLocal(Pkgs[k])
            THEN /\ Pkgs[k].Ref = OriginalRef \o <<"-", bundle.Metadata.Architecture,
                                      "@sha256:", Encoded(rootManifest.layers[k].digest)>>
                 /\ rootManifest.layers[k] = LocalManifestDesc(Pkgs[k])
            ELSE Pkgs[k].Ref = OriginalRef

C5_Witness ==
    /\ mode = "create" /\ Succeeded /\ Len(Pkgs) = 2
    /\ IsLocal(Pkgs[1]) /\ Len(Pkgs[1].Ref) = 5
    /\ Pkgs[2].Repository # "" /\ Pkgs[2].Path # ""

\* C6: with an empty architecture both entry points return the
\* "architecture is required" error and nothing else has happened
C6_ArchRequired ==
    (bundle.Metadata.Architecture = "" /\ pc # "start") =>
        /\ pc = "done"
        /\ result = Failed(ArchErr)
        /\ store = ClosedStore
        /\ registry = EmptyRegistry
        /\ ops = <<>> /\ pkgTmps = {} /\ artifactPathMap = {}
        /\ rootManifest = EmptyManifest /\ manifestDesc = EmptyDescriptor
        /\ tar = IdleTar
        /\ bundle \in Bundles

C6_Witness ==
    /\ bundle.Metadata.Architecture = "" /\ pc = "done"
    /\ result.err.msg = "architecture is required for bundling"
    /\ Len(Pkgs) = 2

\* C7: a child with neither Repository nor Path makes both entry points
\* fail with an error naming that child, and no mirroring call is made for it
C7_InvalidChild ==
    \A k \in 1..Len(Pkgs) :
        (IsInvalid(Pkgs[k]) /\ i = k /\ pc # "loop") =>
            /\ result.status = "err"
            /\ Pkgs[k].Name \in result.err.names
            /\ \A n \in 1..Len(ops) : ops[n].child # k

(* C8 *)
LayerPushes(p) ==
    [n \in 1..LayersPerPkg |-> Pushed("childLayer", RemoteLayerDescs(p)[n].digest, "")]

RECURSIVE ChildPushes(_)
ChildPushes(k) ==
    IF k = 0 THEN <<>>
    ELSE ChildPushes(k - 1)
            \o <<Pushed("childManifest", RemoteManifestDesc(Pkgs[k]).digest, "")>>
            \o LayerPushes(Pkgs[k])

ExpectedBlobPushes ==
    ChildPushes(Len(Pkgs))
        \o <<Pushed("blob", BundleYamlDesc(bundle).digest, "")>>
        \o (IF Len(signature) > 0
            THEN <<Pushed("blob", SignatureDesc(signature).digest, "")>> ELSE <<>>)
        \o <<Pushed("blob",
                    pushManifestConfigFromMetadata(bundle.Metadata, bundle.Build).digest, "")>>

ManifestPushes == { n \in 1..Len(registry.log) : registry.log[n].op = "manifest" }

\* C8: CreateAndPublish pushes child manifest then child layers per child in
\* bundle order, then the bundle YAML, the signature if any, the config, and
\* last, once, the root manifest under the destination tag, every blob it
\* references having been pushed before
C8_PushOrder ==
    mode = "publish" =>
        LET log == registry.log
            m == Len(ExpectedBlobPushes) + 1 IN
        /\ ManifestPushes \subseteq {m}
        /\ IsPrefix(SubSeq(log, 1, Len(log) - Cardinality(ManifestPushes)),
                    ExpectedBlobPushes)
        /\ Succeeded <=> ManifestPushes = {m}
        /\ ManifestPushes = {m} =>
              LET root == Encoded(log[m].digest)
                  before == { log[n].digest : n \in 1..(m - 1) } IN
              /\ Len(log) = m
              /\ log[m].tag = DstReference
              /\ root.config.digest \in before
              /\ \A k \in 1..Len(root.layers) : root.layers[k].digest \in before
              /\ Len(root.layers) =
                    Len(Pkgs) + 1 + (IF Len(signature) > 0 THEN 1 ELSE 0)

C8_Witness ==
    /\ mode = "publish" /\ Succeeded
    /\ Len(Pkgs) = 2 /\ Len(signature) > 0
    /\ Len(registry.log) = Len(ExpectedBlobPushes) + 1

\* blobs the mirroring of child k leaves in the store (Create) or registry
MirroredDigests(k) ==
    {ChildDesc(Pkgs[k]).digest} \cup { RemoteLayerDescs(Pkgs[k])[n].digest : n \in 1..LayersPerPkg }

\* C9: when a step for child k fails, that error is returned at once: no
\* later call is made, the root manifest is not built or pushed, index.json
\* is not rewritten, no tarball is written, and the blobs of the children
\* mirrored before k stay where they were put
C9_FailFast ==
    /\ \A n \in 1..(Len(ops) - 1) : ops[n].ok
    /\ (ops # <<>> /\ ~ops[Len(ops)].ok) =>
          LET failed == ops[Len(ops)] IN
          /\ pc = "done"
          /\ result = Failed(StepErr(failed.step, failed.child))
          /\ i = failed.child
          /\ \A n \in 1..Len(ops) : ops[n].child <= failed.child
          /\ manifestDesc = EmptyDescriptor
          /\ rootManifest.schemaVersion = 0
          /\ Len(rootManifest.layers) < failed.child + 1
          /\ store.indexFile = store.index
          /\ \A n \in 1..Len(store.indexFile) :
                \E k \in 1..failed.child : store.indexFile[n] = ChildDesc(Pkgs[k])
          /\ registry.tags = {} /\ ManifestPushes = {}
          /\ tar = IdleTar
          /\ \A k \in 1..(failed.child - 1) :
                MirroredDigests(k) \subseteq
                    (IF mode = "create" THEN store.blobs ELSE registry.blobs)

C9_Witness ==
    /\ mode = "create" /\ pc = "done"
    /\ ops # <<>> /\ ~ops[Len(ops)].ok
    /\ ops[Len(ops)].child = 2 /\ ops[Len(ops)].step = "ToBundle"
    /\ MirroredDigests(1) \subseteq store.blobs

\* C10: writeTarball returns success (and reports the archive as created)
\* only if no job failed and every file of the PathMap was written
C10_SuccessMeansArchived ==
    (tar.ret.status = "ok" \/ tar.msg) =>
        /\ ~tar.taskErr
        /\ tar.failed = 0
        /\ tar.archived = tar.files

\* C11: when writeTarball returns success for a PathMap of n files the
\* progress bar, created with total n, has been advanced exactly n times
C11_BarComplete ==
    tar.ret.status = "ok" =>
        /\ tar.barTotal = tar.files
        /\ tar.bar = tar.files

\* C12: in Create a child's scratch directory exists only while that child
\* is being mirrored, so at most one exists at a time, and none exists once
\* Create has returned
C12_ScratchReleased ==
    mode = "create" =>
        /\ \A k \in pkgTmps : k = i /\ pc \in {"Extract", "Load", "ToBundle"}
        /\ Cardinality(pkgTmps) <= 1
        /\ pc = "done" => pkgTmps = {}

\* the root manifest as it was marshalled, once it has been
Marshalled == manifestDesc # EmptyDescriptor
MarshalledRoot == Encoded(manifestDesc.digest)

\* C13: the root manifest marshalled by Create and by CreateAndPublish has
\* schemaVersion 2, the OCI image manifest media type and, as config, the
\* config descriptor emitted in that run
C13_RootManifestFields ==
    Marshalled =>
        /\ MarshalledRoot.schemaVersion = 2
        /\ MarshalledRoot.mediaType = MediaTypeImageManifest
        /\ MarshalledRoot.config =
              (IF mode = "create"
               THEN createManifestConfig(bundle.Metadata, bundle.Build)
               ELSE pushManifestConfigFromMetadata(bundle.Metadata, bundle.Build))

\* the uds-bundle.yaml blobs in the content store
StoredYamls == { d \in store.blobs : Encoded(d).kind = "udsBundleYaml" }

\* C14: in Create a uds-bundle.yaml blob is in the store only once every
\* child has been mirrored; it records the rewritten Ref of every local
\* child, and the descriptor appended to the root manifest is that blob's
C14_YamlAfterRewrite ==
    (mode = "create" /\ StoredYamls # {}) =>
        LET yamlDesc == rootManifest.layers[Len(Pkgs) + 1] IN
        /\ i > Len(Pkgs)
        /\ StoredYamls = {yamlDesc.digest}
        /\ yamlDesc.mediaType = ZarfLayerMediaTypeBlob
        /\ yamlDesc.annotations = {<<AnnotationTitle, BundleYAML>>}
        /\ Len(Encoded(yamlDesc.digest).bundle.ZarfPackages) = Len(Pkgs)
        /\ \A k \in 1..Len(Pkgs) :
              Encoded(yamlDesc.digest).bundle.ZarfPackages[k].Ref =
                  (IF IsLocal(Pkgs[k])
                   THEN OriginalRef \o <<"-", bundle.Metadata.Architecture, "@sha256:",
                                         Encoded(rootManifest.layers[k].digest)>>
                   ELSE OriginalRef)

C14_Witness ==
    /\ mode = "create" /\ Succeeded
    /\ StoredYamls # {}
    /\ Len(Pkgs) = 2 /\ IsLocal(Pkgs[1]) /\ IsLocal(Pkgs[2])

\* C16: writeTarball has returned only if the archival goroutine it started
\* has finished
C16_TaskDoneAtReturn ==
    pc \in {"tarReturned", "done"} => tar.task \in {"none", "done"}

\* C15: writeTarball terminates for every PathMap: queueing a job never
\* finds the job channel full, reporting a result never finds the result
\* channel full, and the caller always comes to its return
C15_Terminates ==
    /\ [](pc = "enqueue" /\ tar.queued < tar.files => tar.jobs < tar.cap)
    /\ [](tar.task = "write" => Len(tar.results) < tar.cap)
    /\ <>(pc = "tarReturned")

C15_Witness ==
    /\ mode = "tar" /\ pc = "tarReturned"
    /\ tar.files >= 2 /\ tar.queued = tar.files
    /\ tar.task = "done" /\ tar.archived + tar.failed = tar.files

====
